---- MODULE Spec2Model ----
(***************************************************************************)
(* Model of lib/review.py: the Review class, an object-relational mapping  *)
(* of Python objects to the rows of the SQLite table "reviews", with the   *)
(* class-level identity map Review.all.                                    *)
(*                                                                         *)
(* One action per method call.  The last call is kept in op (the method's  *)
(* name), ret (the returned references) and err (the exception class, or   *)
(* "ok"); calls counts the calls made so far.                              *)
(***************************************************************************)
EXTENDS Integers, Sequences, FiniteSets, TLC

VARIABLES heap, all, rows, tableExists, employees, op, ret, err, calls

vars == <<heap, all, rows, tableExists, employees, op, ret, err, calls>>

(* ---------------- bounds ---------------- *)

\* number of Review objects the caller holds references to
MaxObjs == 2

\* largest rowid the table hands out
MaxRowId == 2

\* number of calls in a run
MaxCalls == 3

(* ---------------- Python values ---------------- *)

\* Python's None as the value of Review.id (rowids start at 1)
None == 0

PyInt(n) == [type |-> "int", n |-> n, s |-> ""]

PyStr(s) == [type |-> "str", n |-> 0, s |-> s]

\* ids of the employees table
EmpIds == {1}

\* arguments a caller passes as year: below 2000, valid, and not an int
YearInputs == {PyInt(1999), PyInt(2000), PyInt(2001), PyStr("2000")}

\* arguments a caller passes as summary: empty, valid, and not a str
SummaryInputs == {PyStr(""), PyStr("a"), PyInt(7)}

\* arguments a caller passes as employee_id: 2 is never an employee
EmployeeInputs == {PyInt(1), PyInt(2), PyStr("1")}

\* year, summary and employee_id as one call passes them: at most one of the
\* three is of the wrong type or out of range (the setters run in this order and
\* the first one to raise ends the call, so a later bad argument is never read)
ReviewArgs ==
    {a \in YearInputs \X SummaryInputs \X EmployeeInputs :
        \/ a[2] = PyStr("a") /\ a[3] = PyInt(1)
        \/ a[1] \in {PyInt(2000), PyInt(2001)} /\ a[2] = PyStr("a")
        \/ a[1] \in {PyInt(2000), PyInt(2001)} /\ a[3] = PyInt(1)}

\* arguments a caller passes as id
IdInputs == {None} \cup (1..MaxRowId)

Refs == 1..Len(heap)

EmptyMap == <<>>

(* ---------------- collaborators ---------------- *)

\* Employee.find_by_id(id): truthy iff the employees table has that id
EmployeeFindById(n) == n \in employees

(* ---------------- validation (property setters) ---------------- *)

\* year.setter condition
ValidYear(v) == v.type = "int" /\ v.n >= 2000

\* summary.setter condition
ValidSummary(v) == v.type = "str" /\ v.s # ""

\* employee_id.setter condition
ValidEmployeeId(v) == v.type = "int" /\ EmployeeFindById(v.n)

(* ---------------- SQLite ---------------- *)

RECURSIVE MaxOf(_)
MaxOf(S) == IF S = {} THEN 0
            ELSE LET x == CHOOSE y \in S : TRUE
                     m == MaxOf(S \ {x})
                 IN IF x > m THEN x ELSE m

\* CURSOR.lastrowid after an INSERT into an INTEGER PRIMARY KEY table
LastRowId(t) == MaxOf(DOMAIN t) + 1

\* the row tuple (year, summary, employee_id) bound to a statement
Fields(o) == [year |-> o.year, summary |-> o.summary, employee_id |-> o.employee_id]

\* a function with key k removed
Without(f, k) == [x \in (DOMAIN f) \ {k} |-> f[x]]

\* a function with key k set to v
With(f, k, v) == [x \in (DOMAIN f) \cup {k} |-> IF x = k THEN v ELSE f[x]]

(* ---------------- initial state ---------------- *)

\* the rows an earlier run of the program can have left in the table: written
\* by save() or update() from validated fields
StoredRows ==
    [year : {v \in YearInputs : v.type = "int" /\ v.n >= 2000},
     summary : {v \in SummaryInputs : v.type = "str" /\ v.s # ""},
     employee_id : {PyInt(e) : e \in EmpIds}]

Tables == UNION {[K -> StoredRows] : K \in SUBSET (1..MaxRowId)}

\* the interpreter has just imported the module: no Review object, an empty
\* identity map, and the database file as earlier runs left it
Init ==
    /\ heap = <<>>
    /\ all = EmptyMap
    /\ tableExists \in BOOLEAN
    /\ rows \in IF tableExists THEN Tables ELSE {EmptyMap}
    /\ employees \in SUBSET EmpIds
    /\ op = "import"
    /\ ret = <<>>
    /\ err = "ok"
    /\ calls = 0

\* bookkeeping of a call
Called(name) ==
    /\ calls < MaxCalls
    /\ calls' = calls + 1
    /\ op' = name

(* ---------------- schema ---------------- *)

CreateTable ==
    /\ Called("create_table")
    /\ tableExists' = TRUE
    /\ ret' = <<>>
    /\ err' = "ok"
    /\ UNCHANGED <<heap, all, rows, employees>>

DropTable ==
    /\ Called("drop_table")
    /\ tableExists' = FALSE
    /\ rows' = EmptyMap
    /\ ret' = <<>>
    /\ err' = "ok"
    /\ UNCHANGED <<heap, all, employees>>

(* ---------------- construction and setters ---------------- *)

\* the three setters __init__ runs all accept their argument
InitAccepts(year, summary, employee_id) ==
    ValidYear(year) /\ ValidSummary(summary) /\ ValidEmployeeId(employee_id)

NewReview(year, summary, employee_id, id) ==
    [id |-> id, year |-> year, summary |-> summary, employee_id |-> employee_id]

Construct(year, summary, employee_id, id) ==
    /\ Called("__init__")
    /\ IF InitAccepts(year, summary, employee_id)
       THEN /\ Len(heap) < MaxObjs
            /\ heap' = Append(heap, NewReview(year, summary, employee_id, id))
            /\ ret' = <<Len(heap) + 1>>
            /\ err' = "ok"
       ELSE /\ heap' = heap
            /\ ret' = <<>>
            /\ err' = "ValueError"
    /\ UNCHANGED <<all, rows, tableExists, employees>>

SetYear(o, year) ==
    /\ Called("year")
    /\ IF ValidYear(year)
       THEN heap' = [heap EXCEPT ![o].year = year] /\ err' = "ok"
       ELSE heap' = heap /\ err' = "ValueError"
    /\ ret' = <<>>
    /\ UNCHANGED <<all, rows, tableExists, employees>>

SetSummary(o, summary) ==
    /\ Called("summary")
    /\ IF ValidSummary(summary)
       THEN heap' = [heap EXCEPT ![o].summary = summary] /\ err' = "ok"
       ELSE heap' = heap /\ err' = "ValueError"
    /\ ret' = <<>>
    /\ UNCHANGED <<all, rows, tableExists, employees>>

SetEmployeeId(o, employee_id) ==
    /\ Called("employee_id")
    /\ IF ValidEmployeeId(employee_id)
       THEN heap' = [heap EXCEPT ![o].employee_id = employee_id] /\ err' = "ok"
       ELSE heap' = heap /\ err' = "ValueError"
    /\ ret' = <<>>
    /\ UNCHANGED <<all, rows, tableExists, employees>>

(* ---------------- save / create ---------------- *)

\* save() that forgets to enter the object into the identity map
SaveOutcome_NoRegister(h, a, t, o) ==
    [rows |-> With(t, LastRowId(t), Fields(h[o])),
     heap |-> [h EXCEPT ![o].id = LastRowId(t)],
     all |-> a]

\* save() of object o once the table is known to exist: INSERT, then
\* self.id = CURSOR.lastrowid, then all[self.id] = self
SaveOutcome(h, a, t, o) ==
    [rows |-> With(t, LastRowId(t), Fields(h[o])),
     heap |-> [h EXCEPT ![o].id = LastRowId(t)],
     all |-> With(a, LastRowId(t), o)]

Save(o) ==
    /\ Called("save")
    /\ IF tableExists
       THEN /\ LastRowId(rows) <= MaxRowId
            /\ rows' = SaveOutcome(heap, all, rows, o).rows
            /\ heap' = SaveOutcome(heap, all, rows, o).heap
            /\ all' = SaveOutcome(heap, all, rows, o).all
            /\ err' = "ok"
       ELSE /\ UNCHANGED <<rows, heap, all>>
            /\ err' = "OperationalError"
    /\ ret' = <<>>
    /\ UNCHANGED <<tableExists, employees>>

Create(year, summary, employee_id) ==
    /\ Called("create")
    /\ IF ~InitAccepts(year, summary, employee_id)
       THEN /\ UNCHANGED <<rows, heap, all>>
            /\ ret' = <<>>
            /\ err' = "ValueError"
       ELSE IF ~tableExists
       THEN /\ UNCHANGED <<rows, heap, all>>
            /\ ret' = <<>>
            /\ err' = "OperationalError"
       ELSE LET review == Len(heap) + 1
                h == Append(heap, NewReview(year, summary, employee_id, None))
            IN /\ Len(heap) < MaxObjs
               /\ LastRowId(rows) <= MaxRowId
               /\ rows' = SaveOutcome(h, all, rows, review).rows
               /\ heap' = SaveOutcome(h, all, rows, review).heap
               /\ all' = SaveOutcome(h, all, rows, review).all
               /\ ret' = <<review>>
               /\ err' = "ok"
    /\ UNCHANGED <<tableExists, employees>>

(* ---------------- instance_from_db / find_by_id / get_all ---------------- *)

\* the branch of instance_from_db taken when the id is in the identity map:
\* the tuple assignment runs the three setters left to right and stops at the
\* first one that raises
AssignFromRow(h, o, row) ==
    IF ~ValidYear(row[2])
    THEN [heap |-> h, err |-> "ValueError"]
    ELSE IF ~ValidSummary(row[3])
    THEN [heap |-> [h EXCEPT ![o].year = row[2]], err |-> "ValueError"]
    ELSE IF ~ValidEmployeeId(row[4])
    THEN [heap |-> [h EXCEPT ![o].year = row[2], ![o].summary = row[3]],
          err |-> "ValueError"]
    ELSE [heap |-> [h EXCEPT ![o].year = row[2], ![o].summary = row[3],
                             ![o].employee_id = row[4]],
          err |-> "ok"]

\* instance_from_db that never consults the identity map
InstanceFromDb_AlwaysNew(h, a, row) ==
    IF InitAccepts(row[2], row[3], row[4])
    THEN [heap |-> Append(h, NewReview(row[2], row[3], row[4], row[1])),
          all |-> With(a, row[1], Len(h) + 1),
          err |-> "ok",
          ret |-> <<Len(h) + 1>>]
    ELSE [heap |-> h, all |-> a, err |-> "ValueError", ret |-> <<>>]

\* instance_from_db(row) run on heap h and identity map a; row is the tuple
\* <<id, year, summary, employee_id>>
InstanceFromDb(h, a, row) ==
    IF row[1] \in DOMAIN a
    THEN LET r == AssignFromRow(h, a[row[1]], row)
         IN [heap |-> r.heap, all |-> a, err |-> r.err,
             ret |-> IF r.err = "ok" THEN <<a[row[1]]>> ELSE <<>>]
    ELSE IF InitAccepts(row[2], row[3], row[4])
    THEN [heap |-> Append(h, NewReview(row[2], row[3], row[4], row[1])),
          all |-> With(a, row[1], Len(h) + 1),
          err |-> "ok",
          ret |-> <<Len(h) + 1>>]
    ELSE [heap |-> h, all |-> a, err |-> "ValueError", ret |-> <<>>]

\* the tuple fetchone()/fetchall() yields for the row with id k
RowTuple(t, k) == <<k, t[k].year, t[k].summary, t[k].employee_id>>

\* the ids of a set in ascending order (the order of SELECT * FROM reviews)
RECURSIVE Ascending(_)
Ascending(S) == IF S = {} THEN <<>>
                ELSE Append(Ascending(S \ {MaxOf(S)}), MaxOf(S))

\* the list comprehension of get_all over the fetched rows ids[i..]; acc holds
\* the heap, the map and the list built so far
RECURSIVE MapRows(_, _, _, _)
MapRows(acc, t, ids, i) ==
    IF i > Len(ids) THEN acc
    ELSE LET r == InstanceFromDb(acc.heap, acc.all, RowTuple(t, ids[i]))
         IN IF r.err # "ok"
            THEN [heap |-> r.heap, all |-> r.all, err |-> r.err, ret |-> <<>>]
            ELSE MapRows([heap |-> r.heap, all |-> r.all, err |-> "ok",
                          ret |-> acc.ret \o r.ret], t, ids, i + 1)

\* find_by_id(id) run on heap h, identity map a and table t
FindByIdOutcome(h, a, t, exists, id) ==
    IF ~exists
    THEN [heap |-> h, all |-> a, err |-> "OperationalError", ret |-> <<>>]
    ELSE IF id \in DOMAIN t
    THEN InstanceFromDb(h, a, RowTuple(t, id))
    ELSE [heap |-> h, all |-> a, err |-> "ok", ret |-> <<>>]

\* get_all() run on heap h, identity map a and table t
GetAllOutcome(h, a, t, exists) ==
    IF ~exists
    THEN [heap |-> h, all |-> a, err |-> "OperationalError", ret |-> <<>>]
    ELSE MapRows([heap |-> h, all |-> a, err |-> "ok", ret |-> <<>>],
                 t, Ascending(DOMAIN t), 1)

\* find_by_id(id) called in the current state
FindNow(id) == FindByIdOutcome(heap, all, rows, tableExists, id)

FindById(id) ==
    /\ Called("find_by_id")
    /\ Len(FindNow(id).heap) <= MaxObjs
    /\ heap' = FindNow(id).heap
    /\ all' = FindNow(id).all
    /\ ret' = FindNow(id).ret
    /\ err' = FindNow(id).err
    /\ UNCHANGED <<rows, tableExists, employees>>

GetAll ==
    /\ Called("get_all")
    /\ LET r == GetAllOutcome(heap, all, rows, tableExists)
       IN /\ Len(r.heap) <= MaxObjs
          /\ heap' = r.heap
          /\ all' = r.all
          /\ ret' = r.ret
          /\ err' = r.err
    /\ UNCHANGED <<rows, tableExists, employees>>

(* ---------------- update / delete ---------------- *)

\* an UPDATE statement that leaves the year column out
UpdateRows_KeepsYear(t, o) ==
    IF o.id \in DOMAIN t
    THEN [t EXCEPT ![o.id].summary = o.summary, ![o.id].employee_id = o.employee_id]
    ELSE t

\* the UPDATE statement of update() for the object record o on table t
UpdateRows(t, o) ==
    IF o.id \in DOMAIN t THEN [t EXCEPT ![o.id] = Fields(o)] ELSE t

Update(o) ==
    /\ Called("update")
    /\ IF tableExists
       THEN /\ rows' = UpdateRows(rows, heap[o])
            /\ err' = "ok"
       ELSE /\ rows' = rows
            /\ err' = "OperationalError"
    /\ ret' = <<>>
    /\ UNCHANGED <<heap, all, tableExists, employees>>

\* delete() that drops the map entry but issues no DELETE
DeleteOutcome_KeepsRow(h, a, t, o) ==
    IF h[o].id \in DOMAIN a
    THEN [rows |-> t,
          all |-> Without(a, h[o].id),
          heap |-> [h EXCEPT ![o].id = None],
          err |-> "ok"]
    ELSE [rows |-> t, all |-> a, heap |-> h, err |-> "KeyError"]

\* delete() that resets the id before it removes the map entry
DeleteOutcome_ResetsIdFirst(h, a, t, o) ==
    IF h[o].id \in DOMAIN a
    THEN [rows |-> Without(t, h[o].id),
          all |-> Without(a, h[o].id),
          heap |-> [h EXCEPT ![o].id = None],
          err |-> "ok"]
    ELSE [rows |-> Without(t, h[o].id), all |-> a,
          heap |-> [h EXCEPT ![o].id = None], err |-> "KeyError"]

\* delete() of object o once the table is known to exist: DELETE, then
\* del all[self.id] (KeyError when the id is no key), then self.id = None
DeleteOutcome(h, a, t, o) ==
    IF h[o].id \in DOMAIN a
    THEN [rows |-> Without(t, h[o].id),
          all |-> Without(a, h[o].id),
          heap |-> [h EXCEPT ![o].id = None],
          err |-> "ok"]
    ELSE [rows |-> Without(t, h[o].id), all |-> a, heap |-> h, err |-> "KeyError"]

Delete(o) ==
    /\ Called("delete")
    /\ IF tableExists
       THEN /\ rows' = DeleteOutcome(heap, all, rows, o).rows
            /\ all' = DeleteOutcome(heap, all, rows, o).all
            /\ heap' = DeleteOutcome(heap, all, rows, o).heap
            /\ err' = DeleteOutcome(heap, all, rows, o).err
       ELSE /\ UNCHANGED <<rows, heap, all>>
            /\ err' = "OperationalError"
    /\ ret' = <<>>
    /\ UNCHANGED <<tableExists, employees>>

(* ---------------- the employees table (collaborator) ---------------- *)

EmployeeCreate(e) ==
    /\ Called("Employee.create")
    /\ e \notin employees
    /\ employees' = employees \cup {e}
    /\ ret' = <<>>
    /\ err' = "ok"
    /\ UNCHANGED <<heap, all, rows, tableExists>>

EmployeeDelete(e) ==
    /\ Called("Employee.delete")
    /\ e \in employees
    /\ employees' = employees \ {e}
    /\ ret' = <<>>
    /\ err' = "ok"
    /\ UNCHANGED <<heap, all, rows, tableExists>>

Next ==
    \/ CreateTable
    \/ DropTable
    \/ \E a \in ReviewArgs, k \in IdInputs : Construct(a[1], a[2], a[3], k)
    \/ \E o \in Refs, y \in YearInputs : SetYear(o, y)
    \/ \E o \in Refs, s \in SummaryInputs : SetSummary(o, s)
    \/ \E o \in Refs, e \in EmployeeInputs : SetEmployeeId(o, e)
    \/ \E o \in Refs : Save(o)
    \/ \E a \in ReviewArgs : Create(a[1], a[2], a[3])
    \/ \E k \in IdInputs : FindById(k)
    \/ GetAll
    \/ \E o \in Refs : Update(o)
    \/ \E o \in Refs : Delete(o)
    \/ \E e \in EmpIds : EmployeeCreate(e)
    \/ \E e \in EmpIds : EmployeeDelete(e)

Spec == Init /\ [][Next]_vars

(* ======================= properties ======================= *)

RowIds == 1..MaxRowId

\* object o has an id, the table has the row of that id with o's field values,
\* and the identity map holds o under that id
InSync(o) ==
    /\ heap[o].id # None
    /\ heap[o].id \in DOMAIN rows
    /\ rows[heap[o].id] = Fields(heap[o])
    /\ heap[o].id \in DOMAIN all
    /\ all[heap[o].id] = o

\* table u is table t with every row but k untouched
SameButRow(t, u, k) ==
    /\ (DOMAIN u) \ {k} = (DOMAIN t) \ {k}
    /\ \A j \in (DOMAIN t) \ {k} : u[j] = t[j]

\* C1 as stated: in every reachable state every Review object with a non-null
\* id has its row in the table, with equal year, summary and employee_id, and the
\* identity map associates that id to that object.
C1_EveryObjectInSync == \A o \in Refs : heap[o].id # None => InSync(o)

\* C1 amended: the correspondence holds when an object is made persistent or
\* loaded: right after a successful save() of o, after a successful create(), and
\* for every object a successful find_by_id or get_all has just allocated for a
\* row whose id was not in the identity map, that object has a non-null id, its
\* row holds its field values and the map holds it under its id.
C1_InSyncWhenPersisted ==
    [][(op' \in {"save", "create", "find_by_id", "get_all"} /\ err' = "ok") =>
       /\ \A o \in Refs : Save(o) => InSync(o)'
       /\ \A n \in 1..MaxObjs :
            (/\ op' \in {"create", "find_by_id", "get_all"}
             /\ n > Len(heap)
             /\ n <= Len(heap'))
                => InSync(n)']_vars

C1_Witness ==
    /\ op = "save"
    /\ err = "ok"
    /\ \E o \in Refs : InSync(o) /\ heap[o].id = MaxOf(DOMAIN rows)

\* C2: for a row of the table whose id is a key of the identity map,
\* find_by_id (through instance_from_db) allocates no object, returns the object
\* the map held, leaves that object's fields equal to the row, and leaves the
\* keys of the map as they were.
C2_ResidentRowReturnsMappedObject ==
    [][op' = "find_by_id" =>
       \A k \in RowIds :
          (tableExists /\ k \in DOMAIN rows /\ k \in DOMAIN all /\ FindById(k))
              => /\ err' = "ok"
                 /\ ret' = <<all[k]>>
                 /\ Len(heap') = Len(heap)
                 /\ Fields(heap'[all[k]]) = rows[k]
                 /\ DOMAIN all' = DOMAIN all]_vars

C4_DeleteRegistered ==
    [][op' = "delete" =>
       \A o \in Refs, k \in RowIds :
          (/\ tableExists
           /\ heap[o].id = k
           /\ k \in DOMAIN rows
           /\ k \in DOMAIN all
           /\ all[k] = o
           /\ Delete(o))
              => /\ err' = "ok"
                 /\ k \notin DOMAIN rows'
                 /\ k \notin DOMAIN all'
                 /\ heap'[o].id = None
                 /\ SameButRow(rows, rows', k)
                 /\ SameButRow(all, all', k)
                 /\ FindNow(k)'.err = "ok"
                 /\ FindNow(k)'.ret = <<>>]_vars

C4_Witness ==
    /\ op = "delete"
    /\ err = "ok"
    /\ \E o \in Refs : heap[o].id = None
    /\ DOMAIN rows # {}
    /\ DOMAIN all # {}

\* C5: update() of an object whose id has a row, and whose year, summary and
\* employee_id are valid (the employee exists), leaves that row holding exactly
\* the object's field values and every other row untouched, and find_by_id of
\* the id right afterwards returns an object with those field values.
C5_UpdateRoundTrip ==
    [][op' = "update" =>
       \A o \in Refs, k \in RowIds :
          (/\ tableExists
           /\ heap[o].id = k
           /\ k \in DOMAIN rows
           /\ InitAccepts(heap[o].year, heap[o].summary, heap[o].employee_id)
           /\ Update(o))
              => /\ err' = "ok"
                 /\ k \in DOMAIN rows'
                 /\ rows'[k] = Fields(heap[o])
                 /\ SameButRow(rows, rows', k)
                 /\ FindNow(k)'.err = "ok"
                 /\ Len(FindNow(k)'.ret) = 1
                 /\ Fields(FindNow(k)'.heap[FindNow(k)'.ret[1]]) = Fields(heap[o])]_vars

C5_Witness ==
    /\ op = "update"
    /\ err = "ok"
    /\ \E o \in Refs :
          /\ InSync(o)
          /\ heap[o].year = PyInt(2001)
          /\ FindNow(heap[o].id).ret = <<o>>

\* C6: a call that raises a validation error has written no row, has not
\* changed the identity map, has registered no object, and has left every field
\* of every existing object as it was; so it is for find_by_id in every state
\* in which it would raise one.
C6_ValidationErrorChangesNothing ==
    /\ [][err' = "ValueError" => (rows' = rows /\ all' = all /\ heap' = heap)]_vars
    /\ [](\A k \in RowIds :
             FindNow(k).err = "ValueError"
                 => (FindNow(k).heap = heap /\ FindNow(k).all = all))

\* C7: find_by_id of the id of a row of the table, and get_all, return the
\* canonical objects and never fail with a validation error, whether or not
\* the employee a row refers to still exists.
C7_LoadNeverRevalidates ==
    (op \in {"find_by_id", "get_all"} /\ tableExists) => err = "ok"

\* C8: get_all() returns as many objects as the table has rows, the i-th being
\* the identity-map object of the i-th row, each with a year >= 2000, a non-empty
\* summary and fields equal to its row.
C8_GetAllReturnsEveryRow ==
    (op = "get_all" /\ tableExists)
        => /\ err = "ok"
           /\ Len(ret) = Cardinality(DOMAIN rows)
           /\ \A i \in 1..Len(ret) :
                 LET k == Ascending(DOMAIN rows)[i]
                 IN /\ k \in DOMAIN all
                    /\ all[k] = ret[i]
                    /\ ValidYear(heap[ret[i]].year)
                    /\ ValidSummary(heap[ret[i]].summary)
                    /\ Fields(heap[ret[i]]) = rows[k]

\* C9: save() of an object that was saved before under id k1 (its row and its
\* map entry are in place) inserts a second row with equal values under another
\* id k2, leaves the object's id k2, keeps both map entries pointing at the
\* object, and find_by_id(k1) right afterwards returns an object whose id is
\* not k1.
C9_DoubleSave ==
    [][op' = "save" =>
       \A o \in Refs, k1 \in RowIds :
          (/\ tableExists
           /\ heap[o].id = k1
           /\ k1 \in DOMAIN rows
           /\ rows[k1] = Fields(heap[o])
           /\ k1 \in DOMAIN all
           /\ all[k1] = o
           /\ Save(o))
              => /\ err' = "ok"
                 /\ heap'[o].id # k1
                 /\ heap'[o].id \in (DOMAIN rows') \ (DOMAIN rows)
                 /\ rows'[heap'[o].id] = rows'[k1]
                 /\ all'[k1] = o
                 /\ all'[heap'[o].id] = o
                 /\ FindNow(k1)'.err = "ok"
                 /\ Len(FindNow(k1)'.ret) = 1
                 /\ FindNow(k1)'.heap[FindNow(k1)'.ret[1]].id # k1]_vars

\* C10: delete() of an object whose id is None or is no key of the identity
\* map ends in an error (KeyError, or the statement's error when there is no
\* table), leaves the object's id and the identity map as they were, and for a
\* None id leaves the table as it was.
C10_DeleteUnregisteredFails ==
    [][op' = "delete" =>
       \A o \in Refs :
          (heap[o].id \notin DOMAIN all /\ Delete(o))
              => /\ err' = IF tableExists THEN "KeyError" ELSE "OperationalError"
                 /\ heap' = heap
                 /\ all' = all
                 /\ heap[o].id = None => rows' = rows]_vars

C10_Witness ==
    /\ op = "delete"
    /\ err = "KeyError"
    /\ \E o \in Refs : heap[o].id # None /\ heap[o].id \notin DOMAIN all

====
